---- MODULE Spec2Model ----
\* TPC-H relational-to-graph loaders: the document-style loader
\* (src/arangodb/load.py, ArangoTPCH) and the relationship-pattern loader
\* (src/memgraph/load.py, MemgraphTPCH), run from their entry points main().
EXTENDS Bags, FiniteSets, Integers, Sequences, TLC

\* ---------------------------------------------------------------------
\* Bounds of the model
\* ---------------------------------------------------------------------
MaxRows == 3        \* rows per source file range over 0..MaxRows
MaxBatch == 2       \* the batch size ranges over 1..MaxBatch
MaxRuns == 2        \* invocations of the entry point against one store
MaxFaults == 1      \* backend calls that raise, over all invocations
MaxKey == 12        \* key values range over 0..MaxKey where keys are compared

VARIABLES
    backend,     \* "arango" or "memgraph": which loader runs
    data,        \* the source files: table name -> sequence of rows
    batch_size,  \* batch_size of batch_load / of aload_lineitem
    pc,          \* position of main()
    tbl,         \* index in LoadOrder of the table being loaded (aload)
    sub,         \* "begin": the table's rows are being read; "write": writing
    chunk,       \* batch_num / i // batch_size of the current chunk
    w,           \* which write call of the current chunk comes next
    idx,         \* index creations attempted by setup so far
    gi,          \* edge definitions created by agraph so far
    warned,      \* setup printed an index-creation warning in this run
    store,       \* committed content of the backend: container -> bag
    work,        \* content as seen by the open memgraph transaction
    colls,       \* arango: names of the collections that exist
    graph,       \* arango: edge definitions of the named graph, or NoGraph
    log,         \* write calls issued by this run, in order
    started,     \* tables whose load has started in this run, in order
    run,         \* number of the current invocation of main()
    faults,      \* number of backend calls that raised so far
    expect,      \* history: this run's completed writes applied to an
                 \* empty store
    chunkBase,   \* history: the store when the current chunk was begun
    faults0,     \* history: the value of faults when this run started
    kept,        \* history (memgraph): complete lineitem loads among the
                 \* records the connection saw when clear returned
    loads        \* history (memgraph): complete lineitem loads among the
                 \* committed records; -1 when a lineitem load is there
                 \* in part

vars == <<backend, data, batch_size, pc, tbl, sub, chunk, w, idx, gi, warned,
          store, work, colls, graph, log, started, run, faults, expect,
          chunkBase, faults0, kept, loads>>

\* ---------------------------------------------------------------------
\* Static tables of the two loaders
\* ---------------------------------------------------------------------
Backends == {"arango", "memgraph"}

VERTICES == <<"region", "nation", "supplier", "customer", "part", "partsupp",
              "orders", "lineitem">>

EDGES == <<"nation_region", "customer_nation", "supplier_nation",
           "customer_orders", "order_lineitems", "lineitem_supplier",
           "lineitem_part", "partsupp_part", "partsupp_supplier">>

Range(s) == {s[i] : i \in DOMAIN s}

\* aload with partsupp loaded before the part table it references
LoadOrderPartsuppFirst ==
    <<"region", "nation", "supplier", "customer", "partsupp", "part",
      "orders", "lineitem">>

\* aload: the order in which the per-table loads are called
LoadOrder == <<"region", "nation", "supplier", "customer", "part", "partsupp",
               "orders", "lineitem">>

Tables == Range(LoadOrder)

\* memgraph: node labels and relationship types used by the queries
Labels == {"Region", "Nation", "Supplier", "Customer", "Part", "Order",
           "LineItem"}

RelTypes == {"BELONGS_TO", "LOCATED_IN", "SUPPLIES", "PLACED", "CONTAINS",
             "OF_PART", "SUPPLIED_BY"}

\* containers holding vertex records / edge records, per backend
VertexContainers(b) == IF b = "arango" THEN Range(VERTICES) ELSE Labels

EdgeContainers(b) == IF b = "arango" THEN Range(EDGES) ELSE RelTypes

Containers(b) == VertexContainers(b) \cup EdgeContainers(b)

\* arango INDICES, flattened in the iteration order of asetup:
\* <<collection, field, unique>>
INDICES == << <<"customer", "c_custkey", TRUE>>,
              <<"orders", "o_orderkey", TRUE>>,
              <<"orders", "o_custkey", FALSE>>,
              <<"lineitem", "l_orderkey", FALSE>>,
              <<"lineitem", "l_partkey", FALSE>>,
              <<"lineitem", "l_suppkey", FALSE>>,
              <<"partsupp", "ps_partkey", FALSE>>,
              <<"partsupp", "ps_suppkey", FALSE>>,
              <<"supplier", "s_suppkey", TRUE>>,
              <<"part", "p_partkey", TRUE>>,
              <<"nation", "n_nationkey", TRUE>>,
              <<"region", "r_regionkey", TRUE>> >>

\* memgraph setup_indices: <<label, property>> of each CREATE INDEX
indices == << <<"Region", "regionkey">>, <<"Nation", "nationkey">>,
              <<"Supplier", "suppkey">>, <<"Customer", "custkey">>,
              <<"Part", "partkey">>, <<"Order", "orderkey">>,
              <<"Customer", "nationkey">>, <<"Supplier", "nationkey">>,
              <<"Nation", "regionkey">>, <<"Order", "custkey">>,
              <<"LineItem", "orderkey">>, <<"LineItem", "partkey">>,
              <<"LineItem", "suppkey">> >>

\* number of index creations attempted by setup
NumIndices(b) == IF b = "arango" THEN Len(INDICES) ELSE Len(indices)

\* ---------------------------------------------------------------------
\* Source files.  A row keeps its key columns; the other columns are
\* copied verbatim by both loaders and take no part in any key.
\*   region   [regionkey]             nation   [nationkey, regionkey]
\*   supplier [suppkey, nationkey]    customer [custkey, nationkey]
\*   part     [partkey]               partsupp [partkey, suppkey]
\*   orders   [orderkey, custkey]
\*   lineitem [orderkey, partkey, suppkey, linenumber]
\* ---------------------------------------------------------------------
Ref(i, n) == 1 + (i % n)

\* n rows per file, keys 1..n, every foreign key present
Uniform(n) ==
    [region   |-> [i \in 1..n |-> [regionkey |-> i]],
     nation   |-> [i \in 1..n |-> [nationkey |-> i, regionkey |-> Ref(i, n)]],
     supplier |-> [i \in 1..n |-> [suppkey |-> i, nationkey |-> Ref(i, n)]],
     customer |-> [i \in 1..n |-> [custkey |-> i, nationkey |-> i]],
     part     |-> [i \in 1..n |-> [partkey |-> i]],
     partsupp |-> [i \in 1..n |-> [partkey |-> i, suppkey |-> Ref(i, n)]],
     orders   |-> [i \in 1..n |-> [orderkey |-> i, custkey |-> Ref(i, n)]],
     lineitem |-> [i \in 1..n |-> [orderkey |-> Ref(i, n), partkey |-> i,
                                   suppkey |-> Ref(i, n), linenumber |-> i]]]

\* a key that no row of any file of Uniform(MaxRows) has
AbsentKey == MaxRows + 1

\* the foreign-key column whose value in the last row of table t is
\* replaced by the absent key
OrphanColumn == [nation |-> "regionkey", supplier |-> "nationkey",
                 customer |-> "nationkey", partsupp |-> "suppkey",
                 orders |-> "custkey", lineitem |-> "partkey"]

\* Uniform(MaxRows) in which the last row of every table that has a
\* foreign key references an absent key; the row's own key is kept, so
\* every row that references the row still finds it
Orphans ==
    LET d == Uniform(MaxRows)
    IN  [t \in Tables |->
            IF t \in DOMAIN OrphanColumn
            THEN [d[t] EXCEPT ![MaxRows] =
                     [@ EXCEPT ![OrphanColumn[t]] = AbsentKey]]
            ELSE d[t]]

\* MaxRows rows per file, the last row repeating the first one
Duplicate ==
    LET d == Uniform(MaxRows - 1)
    IN  [t \in Tables |-> Append(d[t], d[t][1])]

\* two rows per file with keys of one and of two digits, every foreign key
\* present: the key pairs (1, 12) and (11, 2) of partsupp and of lineitem
\* are made of the same digits in the same order
TwoDigit ==
    [region   |-> <<[regionkey |-> 1], [regionkey |-> 11]>>,
     nation   |-> <<[nationkey |-> 1, regionkey |-> 1],
                    [nationkey |-> 11, regionkey |-> 11]>>,
     supplier |-> <<[suppkey |-> 12, nationkey |-> 1],
                    [suppkey |-> 2, nationkey |-> 11]>>,
     customer |-> <<[custkey |-> 1, nationkey |-> 1],
                    [custkey |-> 11, nationkey |-> 11]>>,
     part     |-> <<[partkey |-> 1], [partkey |-> 11]>>,
     partsupp |-> <<[partkey |-> 1, suppkey |-> 12],
                    [partkey |-> 11, suppkey |-> 2]>>,
     orders   |-> <<[orderkey |-> 1, custkey |-> 1],
                    [orderkey |-> 11, custkey |-> 11]>>,
     lineitem |-> <<[orderkey |-> 1, partkey |-> 1, suppkey |-> 12,
                     linenumber |-> 12],
                    [orderkey |-> 11, partkey |-> 11, suppkey |-> 2,
                     linenumber |-> 2]>>]

Inputs == {Uniform(n) : n \in 0..MaxRows}
          \cup {Orphans}
          \cup {Duplicate}
          \cup {TwoDigit}

\* keys present in a column of a file
Column(d, t, c) == {d[t][i][c] : i \in DOMAIN d[t]}

\* every foreign key of every row references a row of the source files
ValidInput(d) ==
    /\ Column(d, "nation", "regionkey") \subseteq Column(d, "region", "regionkey")
    /\ Column(d, "supplier", "nationkey") \subseteq Column(d, "nation", "nationkey")
    /\ Column(d, "customer", "nationkey") \subseteq Column(d, "nation", "nationkey")
    /\ Column(d, "partsupp", "partkey") \subseteq Column(d, "part", "partkey")
    /\ Column(d, "partsupp", "suppkey") \subseteq Column(d, "supplier", "suppkey")
    /\ Column(d, "orders", "custkey") \subseteq Column(d, "customer", "custkey")
    /\ Column(d, "lineitem", "orderkey") \subseteq Column(d, "orders", "orderkey")
    /\ Column(d, "lineitem", "partkey") \subseteq Column(d, "part", "partkey")
    /\ Column(d, "lineitem", "suppkey") \subseteq Column(d, "supplier", "suppkey")

\* ---------------------------------------------------------------------
\* Bags of records
\* ---------------------------------------------------------------------
AddOne(B, e) == B (+) SetToBag({e})

Copies(B, e) == IF BagIn(e, B) THEN CopiesIn(e, B) ELSE 0

EmptyStore(b) == [c \in Containers(b) |-> EmptyBag]

\* ---------------------------------------------------------------------
\* Document-style loader: keys, documents, insert_many
\* ---------------------------------------------------------------------
\* str(x) and the f-string rendering {x} of an integer column
Str(x) == ToString(x)

\* f"{a}{b}": the two keys rendered without the separator
CompositeKeyUnseparated(a, b) == Str(a) \o Str(b)

\* f"{a}_{b}": the composite _key of partsupp and lineitem
CompositeKey(a, b) == Str(a) \o "_" \o Str(b)

\* f"collection/{key}": the _from / _to identifier of an edge document
Id(coll, key) == coll \o "/" \o key

\* the _key of the vertex document made from a row of table t
DocKey(t, row) ==
    CASE t = "region"   -> Str(row.regionkey)
      [] t = "nation"   -> Str(row.nationkey)
      [] t = "supplier" -> Str(row.suppkey)
      [] t = "customer" -> Str(row.custkey)
      [] t = "part"     -> Str(row.partkey)
      [] t = "partsupp" -> CompositeKey(row.partkey, row.suppkey)
      [] t = "orders"   -> Str(row.orderkey)
      [] t = "lineitem" -> CompositeKey(row.orderkey, row.linenumber)

\* an edge record with its two ends exchanged
EdgeDocSwapped(from, to) == [from |-> to, to |-> from]

EdgeDoc(from, to) == [from |-> from, to |-> to]

\* the document appended to the list that is inserted into collection c,
\* made from a row of the table that writes c
ArangoDoc(c, row) ==
    CASE c \in Range(VERTICES) -> DocKey(c, row)
      [] c = "nation_region" ->
            EdgeDoc(Id("nation", Str(row.nationkey)),
                    Id("region", Str(row.regionkey)))
      [] c = "supplier_nation" ->
            EdgeDoc(Id("supplier", Str(row.suppkey)),
                    Id("nation", Str(row.nationkey)))
      [] c = "customer_nation" ->
            EdgeDoc(Id("customer", Str(row.custkey)),
                    Id("nation", Str(row.nationkey)))
      [] c = "partsupp_part" ->
            EdgeDoc(Id("partsupp", DocKey("partsupp", row)),
                    Id("part", Str(row.partkey)))
      [] c = "partsupp_supplier" ->
            EdgeDoc(Id("partsupp", DocKey("partsupp", row)),
                    Id("supplier", Str(row.suppkey)))
      [] c = "customer_orders" ->
            EdgeDoc(Id("customer", Str(row.custkey)),
                    Id("orders", Str(row.orderkey)))
      [] c = "order_lineitems" ->
            EdgeDoc(Id("orders", Str(row.orderkey)),
                    Id("lineitem", DocKey("lineitem", row)))
      [] c = "lineitem_part" ->
            EdgeDoc(Id("lineitem", DocKey("lineitem", row)),
                    Id("part", Str(row.partkey)))
      [] c = "lineitem_supplier" ->
            EdgeDoc(Id("lineitem", DocKey("lineitem", row)),
                    Id("supplier", Str(row.suppkey)))

\* aload_orders inserting the customer_orders edges before the orders
WritesEdgesFirst ==
    [region   |-> <<"region">>,
     nation   |-> <<"nation", "nation_region">>,
     supplier |-> <<"supplier", "supplier_nation">>,
     customer |-> <<"customer", "customer_nation">>,
     part     |-> <<"part">>,
     partsupp |-> <<"partsupp", "partsupp_part", "partsupp_supplier">>,
     orders   |-> <<"customer_orders", "orders">>,
     lineitem |-> <<"lineitem", "order_lineitems", "lineitem_part",
                    "lineitem_supplier">>]

\* the insert_many calls of one table load (of one chunk, for lineitem),
\* in the order the loader issues them
Writes == [region   |-> <<"region">>,
           nation   |-> <<"nation", "nation_region">>,
           supplier |-> <<"supplier", "supplier_nation">>,
           customer |-> <<"customer", "customer_nation">>,
           part     |-> <<"part">>,
           partsupp |-> <<"partsupp", "partsupp_part", "partsupp_supplier">>,
           orders   |-> <<"orders", "customer_orders">>,
           lineitem |-> <<"lineitem", "order_lineitems", "lineitem_part",
                          "lineitem_supplier">>]

\* collection.insert_many(docs): the documents are inserted one by one.  A
\* vertex document whose _key is already in the collection is rejected
\* (the rejection is an entry of the returned list, nothing is raised); an
\* edge document carries no _key, gets a fresh one, and is stored without
\* any look-up of its _from and _to.
\* a document store that keeps a second document with a _key it has
InsertOneKeepsDuplicate(s, c, d) == [s EXCEPT ![c] = AddOne(@, d)]

\* one document of insert_many
InsertOne(s, c, d) ==
    IF c \in Range(VERTICES) /\ BagIn(d, s[c])
    THEN s
    ELSE [s EXCEPT ![c] = AddOne(@, d)]

RECURSIVE InsertMany(_, _, _)
InsertMany(s, c, docs) ==
    IF docs = <<>> THEN s
    ELSE InsertMany(InsertOne(s, c, Head(docs)), c, Tail(docs))

\* ---------------------------------------------------------------------
\* Relationship-pattern loader: the query of each table, row by row
\* ---------------------------------------------------------------------
Node(label, key) == <<label, key>>

\* a MATCH that finds no node
MatchNothing(s, label, key) == FALSE

\* MATCH (x:label {key}): is there such a node
Match(s, label, key) == BagIn(key, s[label])

\* CREATE (x:label {key}) in place of MERGE
MergeNodeCreates(s, label, key) == [s EXCEPT ![label] = AddOne(@, key)]

\* MERGE (x:label {key})
MergeNode(s, label, key) ==
    IF BagIn(key, s[label]) THEN s ELSE [s EXCEPT ![label] = AddOne(@, key)]

\* a query that leaves out the MERGE of the relationship
MergeRelOmitted(s, type, a, b) == s

\* MERGE (a)-[:type]->(b)
MergeRel(s, type, a, b) ==
    IF BagIn(EdgeDoc(a, b), s[type]) THEN s
    ELSE [s EXCEPT ![type] = AddOne(@, EdgeDoc(a, b))]

\* MERGE (a)-[:type]->(b) in place of CREATE
CreateRelMerges(s, type, a, b) ==
    IF BagIn(EdgeDoc(a, b), s[type]) THEN s
    ELSE [s EXCEPT ![type] = AddOne(@, EdgeDoc(a, b))]

\* CREATE (a)-[:type]->(b)
CreateRel(s, type, a, b) == [s EXCEPT ![type] = AddOne(@, EdgeDoc(a, b))]

\* the query with MERGE in place of MATCH for the referenced node's
\* relationship: the relationship is made whether or not the node exists
MergeWithRefUnmatched(s, label, key, type, refLabel, refKey) ==
    MergeRel(MergeNode(s, label, key), type, Node(label, key),
             Node(refLabel, refKey))

\* the query with the MATCH of the referenced node placed before the
\* MERGE of the row's node: a row without a match creates nothing
MergeWithRefMatchFirst(s, label, key, type, refLabel, refKey) ==
    IF Match(s, refLabel, refKey)
    THEN MergeRel(MergeNode(s, label, key), type, Node(label, key),
                  Node(refLabel, refKey))
    ELSE s

\* the query with MERGE in place of MATCH for the referenced node: the
\* referenced node is created when it is absent
MergeWithRefMergesRef(s, label, key, type, refLabel, refKey) ==
    MergeRel(MergeNode(MergeNode(s, label, key), refLabel, refKey),
             type, Node(label, key), Node(refLabel, refKey))

\* MERGE the row's node, then MATCH the referenced node and MERGE the
\* relationship: without a match the rest of the query yields nothing for
\* this row (aload_nation, aload_supplier, aload_customer)
MergeWithRef(s, label, key, type, refLabel, refKey) ==
    LET s1 == MergeNode(s, label, key)
    IN  IF Match(s1, refLabel, refKey)
        THEN MergeRel(s1, type, Node(label, key), Node(refLabel, refKey))
        ELSE s1

\* the effect of the query of table t on one element of $rows
ExecRow(s, t, row) ==
    CASE t = "region" -> MergeNode(s, "Region", row.regionkey)
      [] t = "nation" ->
            MergeWithRef(s, "Nation", row.nationkey, "BELONGS_TO",
                         "Region", row.regionkey)
      [] t = "supplier" ->
            MergeWithRef(s, "Supplier", row.suppkey, "LOCATED_IN",
                         "Nation", row.nationkey)
      [] t = "customer" ->
            MergeWithRef(s, "Customer", row.custkey, "LOCATED_IN",
                         "Nation", row.nationkey)
      [] t = "part" -> MergeNode(s, "Part", row.partkey)
      [] t = "partsupp" ->
            IF Match(s, "Part", row.partkey) /\ Match(s, "Supplier", row.suppkey)
            THEN MergeRel(s, "SUPPLIES", Node("Supplier", row.suppkey),
                          Node("Part", row.partkey))
            ELSE s
      [] t = "orders" ->
            LET s1 == MergeNode(s, "Order", row.orderkey)
            IN  IF Match(s1, "Customer", row.custkey)
                THEN MergeRel(s1, "PLACED", Node("Customer", row.custkey),
                              Node("Order", row.orderkey))
                ELSE s1
      [] t = "lineitem" ->
            IF /\ Match(s, "Order", row.orderkey)
               /\ Match(s, "Part", row.partkey)
               /\ Match(s, "Supplier", row.suppkey)
            THEN LET li == Node("LineItem", row)
                     s1 == [s EXCEPT !["LineItem"] = AddOne(@, row)]
                     s2 == CreateRel(s1, "CONTAINS",
                                     Node("Order", row.orderkey), li)
                     s3 == CreateRel(s2, "OF_PART", li,
                                     Node("Part", row.partkey))
                 IN  CreateRel(s3, "SUPPLIED_BY", li,
                               Node("Supplier", row.suppkey))
            ELSE s

\* cursor.execute(query, {"rows": batch}): UNWIND $rows AS row
RECURSIVE Execute(_, _, _)
Execute(s, t, rows) ==
    IF rows = <<>> THEN s
    ELSE Execute(ExecRow(s, t, Head(rows)), t, Tail(rows))

\* ---------------------------------------------------------------------
\* Chunking
\* ---------------------------------------------------------------------
Min(a, b) == IF a < b THEN a ELSE b

\* total_rows // batch_size: the partial last batch is left out
total_batchesFloor(R, N) == R \div N

\* (total_rows + batch_size - 1) // batch_size
total_batches(R, N) == (R + N - 1) \div N

\* the values of i in range(0, len(data), batch_size)
RangeStarts(R, N) == {i \in 0..(R - 1) : i % N = 0}

\* number of iterations of the write loop of table t
NumChunks(b, t, R, N) ==
    IF b = "arango"
    THEN IF t = "lineitem" THEN total_batches(R, N) ELSE 1
    ELSE Cardinality(RangeStarts(R, N))

\* a slice that takes hi as the last position instead of the end
SliceInclusive(R, lo, hi) ==
    [j \in 1..(Min(hi + 1, R) - Min(lo, R)) |-> Min(lo, R) + j]

\* Python slice [lo:hi] of the row numbers 1..R (0 <= lo), as 1-based
\* row numbers: data[i:i + batch_size], df.iloc[start_idx:end_idx]
Slice(R, lo, hi) == [j \in 1..(Min(hi, R) - Min(lo, R)) |-> Min(lo, R) + j]

\* batch_load slicing data[i:] instead of data[i:i + batch_size]
ChunkRowsToEnd(b, t, R, N, k) ==
    IF b = "arango"
    THEN IF t = "lineitem"
         THEN Slice(R, k * N, Min((k + 1) * N, R))
         ELSE Slice(R, 0, R)
    ELSE Slice(R, k * N, R)

\* row numbers carried by iteration k (0-based) of the write loop of table t
ChunkRows(b, t, R, N, k) ==
    IF b = "arango"
    THEN IF t = "lineitem"
         THEN Slice(R, k * N, Min((k + 1) * N, R))
         ELSE Slice(R, 0, R)
    ELSE Slice(R, k * N, k * N + N)

\* a batch passed to the query without its last row
RowsAtLastLeftOut(t, ix) ==
    [j \in 1..(Len(ix) - 1) |-> data[t][ix[j]]]

\* the rows of the source file with these row numbers
RowsAt(t, ix) == [j \in DOMAIN ix |-> data[t][ix[j]]]

\* ---------------------------------------------------------------------
\* Graph declaration (document-style loader)
\* ---------------------------------------------------------------------
NoGraph == [exists |-> FALSE, defs |-> {}]

\* _from, _to = coll.split("_")
Split == [nation_region     |-> <<"nation", "region">>,
          customer_nation   |-> <<"customer", "nation">>,
          supplier_nation   |-> <<"supplier", "nation">>,
          customer_orders   |-> <<"customer", "orders">>,
          order_lineitems   |-> <<"order", "lineitems">>,
          lineitem_supplier |-> <<"lineitem", "supplier">>,
          lineitem_part     |-> <<"lineitem", "part">>,
          partsupp_part     |-> <<"partsupp", "part">>,
          partsupp_supplier |-> <<"partsupp", "supplier">>]

EdgeDefinition(coll) ==
    [edge_collection |-> coll,
     from_vertex_collections |-> Split[coll][1],
     to_vertex_collections |-> Split[coll][2]]

\* the collections that belong to a graph: its edge collections and the
\* vertex collections its edge definitions name
GraphCollections(g) ==
    UNION {{d.edge_collection, d.from_vertex_collections,
            d.to_vertex_collections} : d \in g.defs}

\* ---------------------------------------------------------------------
\* The entry point: initial state
\* ---------------------------------------------------------------------
Init ==
    /\ backend \in Backends
    /\ data \in Inputs
    /\ batch_size \in 1..MaxBatch
    /\ pc = "connect"
    /\ tbl = 1
    /\ sub = "begin"
    /\ chunk = 0
    /\ w = 1
    /\ idx = 0
    /\ gi = 0
    /\ warned = FALSE
    /\ store = EmptyStore(backend)
    /\ work = EmptyStore(backend)
    /\ colls = {}
    /\ graph = NoGraph
    /\ log = <<>>
    /\ started = <<>>
    /\ run = 1
    /\ faults = 0
    /\ expect = EmptyStore(backend)
    /\ chunkBase = EmptyStore(backend)
    /\ faults0 = 0
    /\ kept = 0
    /\ loads = 0

\* a backend call may raise as long as the fault budget lasts
MayFail == faults < MaxFaults

\* an exception that reaches the top level: the process ends, and what the
\* open memgraph transaction had not committed is lost
Raise ==
    /\ MayFail
    /\ faults' = faults + 1
    /\ pc' = "aborted"
    /\ work' = IF backend = "memgraph" THEN store ELSE work

position == <<tbl, sub, chunk, w>>

config == <<backend, data, batch_size>>

history == <<expect, chunkBase, faults0, kept, loads>>

\* ---------------------------------------------------------------------
\* connect, clear, setup
\* ---------------------------------------------------------------------
\* main() going from connect to setup without the call of clear
ConnectThenSetup ==
    /\ pc = "connect"
    /\ pc' = IF backend = "arango" THEN "setup" ELSE "indices"
    /\ work' = IF backend = "memgraph" THEN store ELSE work
    /\ UNCHANGED <<config, history, position, idx, gi, warned,
                   store, colls, graph, log, started, run, faults>>

Connect ==
    /\ pc = "connect"
    /\ pc' = "clear"
    /\ work' = IF backend = "memgraph" THEN store ELSE work
    /\ UNCHANGED <<config, history, position, idx, gi, warned,
                   store, colls, graph, log, started, run, faults>>

ConnectFails ==
    /\ pc = "connect"
    /\ Raise
    /\ UNCHANGED <<config, history, position, idx, gi, warned,
                   store, colls, graph, log, started, run>>

\* aclear: delete the graph with its collections if the graph exists,
\* otherwise delete every collection of VERTICES + EDGES that exists
aclear ==
    /\ pc = "clear"
    /\ backend = "arango"
    /\ LET dropped == IF graph.exists
                      THEN GraphCollections(graph)
                      ELSE Range(VERTICES) \cup Range(EDGES)
       IN  /\ colls' = colls \ dropped
           /\ store' = [c \in DOMAIN store |->
                           IF c \in dropped THEN EmptyBag ELSE store[c]]
    /\ graph' = NoGraph
    /\ pc' = "setup"
    /\ UNCHANGED <<config, history, position, idx, gi, warned,
                   work, log, started, run, faults>>

\* aclear catching the exception as clear does
aclearFailsWarns ==
    /\ pc = "clear"
    /\ backend = "arango"
    /\ MayFail
    /\ faults' = faults + 1
    /\ pc' = "setup"
    /\ UNCHANGED <<config, history, position, idx, gi, warned,
                   store, work, colls, graph, log, started, run>>

aclearFails ==
    /\ pc = "clear"
    /\ backend = "arango"
    /\ Raise
    /\ UNCHANGED <<config, history, position, idx, gi, warned,
                   store, colls, graph, log, started, run>>

\* clear: MATCH (n) DETACH DELETE n, executed in the open transaction and
\* not committed here; setup() is setup_indices()
clear ==
    /\ pc = "clear"
    /\ backend = "memgraph"
    /\ work' = EmptyStore(backend)
    /\ kept' = 0
    /\ pc' = "indices"
    /\ idx' = 0
    /\ UNCHANGED <<config, expect, chunkBase, faults0, loads, position, gi,
                   warned, store, colls, graph, log, started, run, faults>>

\* clear: the exception is caught and printed as a warning
clearFails ==
    /\ pc = "clear"
    /\ backend = "memgraph"
    /\ MayFail
    /\ faults' = faults + 1
    /\ kept' = loads
    /\ pc' = "indices"
    /\ idx' = 0
    /\ UNCHANGED <<config, expect, chunkBase, faults0, loads, position, gi,
                   warned, store, work, colls, graph, log, started, run>>

\* for coll in VERTICES / EDGES: create_collection unless has_collection
create_collections(cs) == cs \cup Range(VERTICES) \cup Range(EDGES)

\* asetup creating every collection anew, whether or not it exists
asetupRecreates ==
    /\ pc = "setup"
    /\ colls' = create_collections(colls)
    /\ store' = [c \in DOMAIN store |->
                    IF c \in Range(VERTICES) \cup Range(EDGES)
                    THEN EmptyBag ELSE store[c]]
    /\ pc' = "indices"
    /\ idx' = 0
    /\ UNCHANGED <<config, history, position, gi, warned,
                   work, graph, log, started, run, faults>>

\* asetup, first part: create the collections that do not exist
asetup ==
    /\ pc = "setup"
    /\ colls' = create_collections(colls)
    /\ pc' = "indices"
    /\ idx' = 0
    /\ UNCHANGED <<config, history, position, gi, warned,
                   store, work, graph, log, started, run, faults>>

asetupFails ==
    /\ pc = "setup"
    /\ Raise
    /\ UNCHANGED <<config, history, position, idx, gi, warned,
                   store, colls, graph, log, started, run>>

\* after the last index creation setup returns and aload starts
AfterIndex ==
    /\ idx' = idx + 1
    /\ pc' = IF idx + 1 = NumIndices(backend) THEN "load" ELSE "indices"

\* one index creation of asetup / setup_indices
CreateIndex ==
    /\ pc = "indices"
    /\ AfterIndex
    /\ UNCHANGED <<config, history, position, gi, warned,
                   store, work, colls, graph, log, started, run, faults>>

\* an index creation whose exception is not caught: it ends the run
CreateIndexFailsRaises ==
    /\ pc = "indices"
    /\ Raise
    /\ UNCHANGED <<config, history, position, idx, gi, warned,
                   store, colls, graph, log, started, run>>

\* the exception of an index creation is caught and printed as a warning
CreateIndexFails ==
    /\ pc = "indices"
    /\ MayFail
    /\ faults' = faults + 1
    /\ warned' = TRUE
    /\ AfterIndex
    /\ UNCHANGED <<config, history, position, gi,
                   store, work, colls, graph, log, started, run>>

\* ---------------------------------------------------------------------
\* aload: the per-table loads
\* ---------------------------------------------------------------------
Table == LoadOrder[tbl]

NumRows == Len(data[Table])

\* a write call as it is recorded in the log
Call(op, coll, ix, ok) ==
    [table |-> Table, coll |-> coll, op |-> op, chunk |-> chunk,
     rows |-> ix, ok |-> ok]

\* the load of the current table has returned: aload calls the next one, or
\* returns to main, which goes on with agraph (arango) or close (memgraph)
AfterTable ==
    /\ pc' = IF tbl < Len(LoadOrder) THEN "load"
             ELSE IF backend = "arango" THEN "graph" ELSE "close"
    /\ tbl' = IF tbl < Len(LoadOrder) THEN tbl + 1 ELSE 1
    /\ sub' = "begin"
    /\ chunk' = 0
    /\ w' = 1

\* the current chunk is written: the loop goes on with the next chunk or ends
AfterChunk ==
    IF chunk + 1 < NumChunks(backend, Table, NumRows, batch_size)
    THEN /\ chunk' = chunk + 1
         /\ w' = 1
         /\ UNCHANGED <<pc, tbl, sub>>
    ELSE AfterTable

\* aload_<table> is called: the file is read and the row list is built
BeginTable ==
    /\ pc = "load"
    /\ sub = "begin"
    /\ started' = Append(started, Table)
    /\ IF NumChunks(backend, Table, NumRows, batch_size) = 0
       THEN AfterTable
       ELSE /\ sub' = "write"
            /\ chunk' = 0
            /\ w' = 1
            /\ UNCHANGED <<pc, tbl>>
    /\ chunkBase' = store
    /\ UNCHANGED <<config, expect, faults0, kept, loads, idx, gi, warned,
                   store, work, colls, graph, log, run, faults>>

\* aload_lineitem with the edge lists created before the batch loop: the
\* edge inserts of a batch carry the edges of every row read so far
insert_manyEdgesKept ==
    /\ pc = "load"
    /\ sub = "write"
    /\ backend = "arango"
    /\ LET c == Writes[Table][w]
           ix == IF c \in Range(EDGES)
                 THEN Slice(NumRows, 0, Min((chunk + 1) * batch_size, NumRows))
                 ELSE ChunkRows(backend, Table, NumRows, batch_size, chunk)
           docs == [j \in DOMAIN ix |-> ArangoDoc(c, data[Table][ix[j]])]
       IN  /\ c \in colls
           /\ store' = InsertMany(store, c, docs)
           /\ expect' = InsertMany(expect, c, docs)
           /\ log' = Append(log, Call("insert_many", c, ix, TRUE))
    /\ IF w < Len(Writes[Table])
       THEN /\ w' = w + 1
            /\ UNCHANGED <<pc, tbl, sub, chunk, chunkBase>>
       ELSE /\ AfterChunk
            /\ chunkBase' = store'
    /\ UNCHANGED <<config, faults0, kept, loads, idx, gi, warned, work,
                   colls, graph, started, run, faults>>

\* arango: the next insert_many of the current table (chunk)
insert_many ==
    /\ pc = "load"
    /\ sub = "write"
    /\ backend = "arango"
    /\ LET c == Writes[Table][w]
           ix == ChunkRows(backend, Table, NumRows, batch_size, chunk)
           docs == [j \in DOMAIN ix |-> ArangoDoc(c, data[Table][ix[j]])]
       IN  /\ c \in colls
           /\ store' = InsertMany(store, c, docs)
           /\ expect' = InsertMany(expect, c, docs)
           /\ log' = Append(log, Call("insert_many", c, ix, TRUE))
    /\ IF w < Len(Writes[Table])
       THEN /\ w' = w + 1
            /\ UNCHANGED <<pc, tbl, sub, chunk, chunkBase>>
       ELSE /\ AfterChunk
            /\ chunkBase' = store'
    /\ UNCHANGED <<config, faults0, kept, loads, idx, gi, warned, work,
                   colls, graph, started, run, faults>>

\* an insert_many whose exception is caught: the loader goes on with the
\* next call
insert_manyFailsContinues ==
    /\ pc = "load"
    /\ sub = "write"
    /\ backend = "arango"
    /\ MayFail
    /\ faults' = faults + 1
    /\ LET c == Writes[Table][w]
           ix == ChunkRows(backend, Table, NumRows, batch_size, chunk)
       IN  log' = Append(log, Call("insert_many", c, ix, FALSE))
    /\ IF w < Len(Writes[Table])
       THEN /\ w' = w + 1
            /\ UNCHANGED <<pc, tbl, sub, chunk>>
       ELSE AfterChunk
    /\ UNCHANGED <<config, history, idx, gi, warned, store, work, colls,
                   graph, started, run>>

insert_manyFails ==
    /\ pc = "load"
    /\ sub = "write"
    /\ backend = "arango"
    /\ LET c == Writes[Table][w]
           ix == ChunkRows(backend, Table, NumRows, batch_size, chunk)
       IN  log' = Append(log, Call("insert_many", c, ix, FALSE))
    /\ Raise
    /\ UNCHANGED <<config, history, position, idx, gi, warned,
                   store, colls, graph, started, run>>

\* batch_load going on to the next batch without waiting for the commit
\* of the batch it has just sent
executeNoCommit ==
    /\ pc = "load"
    /\ sub = "write"
    /\ backend = "memgraph"
    /\ w = 1
    /\ LET ix == ChunkRows(backend, Table, NumRows, batch_size, chunk)
       IN  /\ work' = Execute(work, Table, RowsAt(Table, ix))
           /\ log' = Append(log, Call("execute", Table, ix, TRUE))
    /\ AfterChunk
    /\ UNCHANGED <<config, history, idx, gi, warned, store, colls, graph,
                   started, run, faults>>

\* memgraph batch_load: self.cursor.execute(query, {"rows": batch})
execute ==
    /\ pc = "load"
    /\ sub = "write"
    /\ backend = "memgraph"
    /\ w = 1
    /\ LET ix == ChunkRows(backend, Table, NumRows, batch_size, chunk)
       IN  /\ work' = Execute(work, Table, RowsAt(Table, ix))
           /\ log' = Append(log, Call("execute", Table, ix, TRUE))
    /\ w' = 2
    /\ UNCHANGED <<config, history, pc, tbl, sub, chunk, idx, gi,
                   warned, store, colls, graph, started, run, faults>>

executeFails ==
    /\ pc = "load"
    /\ sub = "write"
    /\ backend = "memgraph"
    /\ w = 1
    /\ LET ix == ChunkRows(backend, Table, NumRows, batch_size, chunk)
       IN  log' = Append(log, Call("execute", Table, ix, FALSE))
    /\ Raise
    /\ UNCHANGED <<config, history, position, idx, gi, warned,
                   store, colls, graph, started, run>>

\* memgraph batch_load: self.connection.commit()
commit ==
    /\ pc = "load"
    /\ sub = "write"
    /\ backend = "memgraph"
    /\ w = 2
    /\ store' = work
    /\ chunkBase' = work
    /\ LET ix == ChunkRows(backend, Table, NumRows, batch_size, chunk)
       IN  /\ log' = Append(log, Call("commit", Table, ix, TRUE))
           /\ expect' = Execute(expect, Table, RowsAt(Table, ix))
    /\ loads' = IF Table # "lineitem" THEN kept
                ELSE IF kept >= 0 /\ chunk + 1 = NumChunks(backend, Table,
                                                           NumRows, batch_size)
                THEN kept + 1
                ELSE -1
    /\ AfterChunk
    /\ UNCHANGED <<config, faults0, kept, idx, gi, warned, work, colls,
                   graph, started, run, faults>>

\* a commit that raises after the backend made the batch durable
commitFailsApplied ==
    /\ pc = "load"
    /\ sub = "write"
    /\ backend = "memgraph"
    /\ w = 2
    /\ MayFail
    /\ faults' = faults + 1
    /\ pc' = "aborted"
    /\ store' = work
    /\ LET ix == ChunkRows(backend, Table, NumRows, batch_size, chunk)
       IN  log' = Append(log, Call("commit", Table, ix, FALSE))
    /\ UNCHANGED <<config, history, position, idx, gi, warned,
                   work, colls, graph, started, run>>

commitFails ==
    /\ pc = "load"
    /\ sub = "write"
    /\ backend = "memgraph"
    /\ w = 2
    /\ LET ix == ChunkRows(backend, Table, NumRows, batch_size, chunk)
       IN  log' = Append(log, Call("commit", Table, ix, FALSE))
    /\ Raise
    /\ UNCHANGED <<config, history, position, idx, gi, warned,
                   store, colls, graph, started, run>>

\* ---------------------------------------------------------------------
\* agraph, close, and a further invocation of main()
\* ---------------------------------------------------------------------
\* agraph: create the graph unless it exists
create_graph ==
    /\ pc = "graph"
    /\ IF graph.exists
       THEN /\ pc' = "close"
            /\ UNCHANGED graph
       ELSE /\ pc' = "edge_defs"
            /\ graph' = [exists |-> TRUE, defs |-> {}]
    /\ gi' = 0
    /\ UNCHANGED <<config, history, position, idx, warned, store,
                   work, colls, log, started, run, faults>>

create_graphFails ==
    /\ pc = "graph"
    /\ Raise
    /\ UNCHANGED <<config, history, position, idx, gi, warned,
                   store, colls, graph, log, started, run>>

\* agraph: one create_edge_definition; vertex collections that the
\* definition names and that do not exist are created empty
create_edge_definition ==
    /\ pc = "edge_defs"
    /\ LET d == EdgeDefinition(EDGES[gi + 1])
       IN  /\ graph' = [graph EXCEPT !.defs = @ \cup {d}]
           /\ colls' = colls \cup {d.edge_collection,
                                   d.from_vertex_collections,
                                   d.to_vertex_collections}
    /\ gi' = gi + 1
    /\ pc' = IF gi + 1 = Len(EDGES) THEN "close" ELSE "edge_defs"
    /\ UNCHANGED <<config, history, position, idx, warned, store,
                   work, log, started, run, faults>>

create_edge_definitionFails ==
    /\ pc = "edge_defs"
    /\ Raise
    /\ UNCHANGED <<config, history, position, idx, gi, warned,
                   store, colls, graph, log, started, run>>

\* aclose / close: an open memgraph transaction ends uncommitted
close ==
    /\ pc = "close"
    /\ pc' = "done"
    /\ work' = IF backend = "memgraph" THEN store ELSE work
    /\ UNCHANGED <<config, history, position, idx, gi, warned,
                   store, colls, graph, log, started, run, faults>>

closeFails ==
    /\ pc = "close"
    /\ Raise
    /\ UNCHANGED <<config, history, position, idx, gi, warned,
                   store, colls, graph, log, started, run>>

\* the operator runs the entry point again on the same files and store
Rerun ==
    /\ pc \in {"done", "aborted"}
    /\ run < MaxRuns
    /\ run' = run + 1
    /\ pc' = "connect"
    /\ tbl' = 1
    /\ sub' = "begin"
    /\ chunk' = 0
    /\ w' = 1
    /\ idx' = 0
    /\ gi' = 0
    /\ warned' = FALSE
    /\ log' = <<>>
    /\ started' = <<>>
    /\ expect' = EmptyStore(backend)
    /\ chunkBase' = store
    /\ faults0' = faults
    /\ kept' = 0
    /\ UNCHANGED <<config, store, work, colls, graph,
                   faults, loads>>

Next ==
    \/ Connect \/ ConnectFails
    \/ aclear \/ aclearFails
    \/ clear \/ clearFails
    \/ asetup \/ asetupFails
    \/ CreateIndex \/ CreateIndexFails
    \/ BeginTable
    \/ insert_many \/ insert_manyFails
    \/ execute \/ executeFails
    \/ commit \/ commitFails
    \/ create_graph \/ create_graphFails
    \/ create_edge_definition \/ create_edge_definitionFails
    \/ close \/ closeFails
    \/ Rerun

Spec == Init /\ [][Next]_vars

TypeOK ==
    /\ backend \in Backends
    /\ batch_size \in 1..MaxBatch
    /\ pc \in {"connect", "clear", "setup", "indices", "load", "graph",
               "edge_defs", "close", "done", "aborted"}
    /\ tbl \in 1..Len(LoadOrder)
    /\ sub \in {"begin", "write"}
    /\ run \in 1..MaxRuns
    /\ faults \in 0..MaxFaults
    /\ DOMAIN store = Containers(backend)

\* ---------------------------------------------------------------------
\* Reading the log and the store
\* ---------------------------------------------------------------------
Last(s) == s[Len(s)]

\* the calls that carry records (a commit carries none of its own)
IsWrite(e) == e.op \in {"insert_many", "execute"}

\* the containers a table load writes to, as named in the log
Targets(b, t) == IF b = "arango" THEN Range(Writes[t]) ELSE {t}

\* the log positions of the record-carrying calls to container c of table t
CallsTo(t, c) ==
    {i \in DOMAIN log : log[i].table = t /\ log[i].coll = c /\ IsWrite(log[i])}

\* the load of table t has been called and has returned normally
LoadReturned(t) ==
    \E i \in DOMAIN started :
        /\ started[i] = t
        /\ \/ i < Len(started)
           \/ pc \in {"graph", "edge_defs", "close", "done"}

\* row number r of table t was carried by the call at log position i, and
\* the call (for memgraph: and the commit that follows it) returned normally
Carried(i, r) ==
    /\ log[i].ok
    /\ \E j \in DOMAIN log[i].rows : log[i].rows[j] = r
    /\ backend = "memgraph" =>
          /\ i < Len(log)
          /\ log[i + 1].op = "commit"
          /\ log[i + 1].ok

\* every row of table t was carried to every container the table targets
TableWritten(t) ==
    \A c \in Targets(backend, t) :
        LET calls == CallsTo(t, c)
        IN  \A r \in 1..Len(data[t]) : \E i \in calls : Carried(i, r)

\* identifiers of the vertex documents of an arango store
VertexIds(s) ==
    UNION {{Id(c, k) : k \in BagToSet(s[c])} : c \in Range(VERTICES)}

\* the edge records of store s whose from or to endpoint is no vertex of s
Dangling(b, s) ==
    IF b = "arango"
    THEN UNION {{e \in BagToSet(s[c]) :
                    e.from \notin VertexIds(s) \/ e.to \notin VertexIds(s)}
                : c \in Range(EDGES)}
    ELSE UNION {{e \in BagToSet(s[c]) :
                    \/ ~Match(s, e.from[1], e.from[2])
                    \/ ~Match(s, e.to[1], e.to[2])}
                : c \in RelTypes}

\* ---------------------------------------------------------------------
\* Properties
\* ---------------------------------------------------------------------
\* the load order that the foreign keys of TPC-H call for
TPCHOrder == <<"region", "nation", "supplier", "customer", "part",
               "partsupp", "orders", "lineitem">>

PosInOrder(t) == CHOOSE i \in DOMAIN TPCHOrder : TPCHOrder[i] = t

\* C1: in both loaders the per-table loads start in the order region,
\* nation, supplier, customer, part, partsupp, orders, lineitem; when a
\* table's load starts, every row of the previous table has been carried by
\* a completed write to each of that table's vertex and edge containers,
\* and no write of a table precedes a write of an earlier table.
C1_LoadOrder ==
    /\ Len(started) <= Len(TPCHOrder)
    /\ \A i \in DOMAIN started : started[i] = TPCHOrder[i]
    /\ \A i \in DOMAIN started : i > 1 => TableWritten(started[i - 1])
    /\ LET called == Range(started)
       IN  \A j \in DOMAIN log : log[j].table \in called
    /\ \A j \in 1..(Len(log) - 1) :
          PosInOrder(log[j].table) <= PosInOrder(log[j + 1].table)

\* all eight loads have started, the last one with rows to write, and the
\* run is complete
C1_Witness ==
    /\ pc = "done"
    /\ started = TPCHOrder
    /\ Len(data["lineitem"]) > 0
    /\ Len(data["orders"]) > 0

\* the edge records put into the store by the step that appended the last
\* call to the log: the documents of an insert_many into an edge collection,
\* or the relationships an execute added to the transaction
EdgesOfStep ==
    IF backend = "arango"
    THEN LET e == Last(log')
         IN  IF e.coll \in Range(EDGES)
             THEN {ArangoDoc(e.coll, data[e.table][e.rows[j]])
                      : j \in DOMAIN e.rows}
             ELSE {}
    ELSE UNION {{r \in BagToSet(work'[c]) : Copies(work'[c], r) > Copies(work[c], r)}
                : c \in RelTypes}

\* C2: for an input whose foreign keys all reference rows of the source
\* files, whenever a write stores edge records, both endpoints of each of
\* them are vertices the backend holds: for an insert_many, vertices stored
\* before the call; for an execute, nodes of the transaction the query
\* matched or merged.
C2_EndpointsFirst ==
    [][(/\ ValidInput(data)
        /\ Len(log') = Len(log) + 1
        /\ Last(log').ok
        /\ IsWrite(Last(log')))
       => \A e \in EdgesOfStep :
             IF backend = "arango"
             THEN e.from \in VertexIds(store) /\ e.to \in VertexIds(store)
             ELSE /\ Match(work', e.from[1], e.from[2])
                  /\ Match(work', e.to[1], e.to[2])]_vars

\* the supplier edges of a later lineitem chunk have just been written
C2_Witness ==
    /\ ValidInput(data)
    /\ log # <<>>
    /\ Last(log).ok
    /\ Last(log).table = "lineitem"
    /\ Last(log).chunk >= 1
    /\ \/ backend = "arango" /\ Last(log).coll = "lineitem_supplier"
                             /\ store["lineitem_supplier"] # EmptyBag
       \/ backend = "memgraph" /\ Last(log).op = "commit"
                               /\ store["SUPPLIED_BY"] # EmptyBag

\* C3 as stated: for every input, after a load no stored edge references a
\* vertex key that is not in the store.
C3_NoDanglingEdge == pc = "done" => Dangling(backend, store) = {}

\* the edge documents the document-style loader makes from the rows
RowEdges ==
    UNION {{<<c, ArangoDoc(c, data[t][r])>> : r \in DOMAIN data[t]}
           : <<t, c>> \in {<<t, c>> \in Tables \X Range(EDGES) :
                               c \in Range(Writes[t])}}

\* C3 amended: after a load, for an input whose foreign keys all reference
\* rows of the source files no stored edge references a missing vertex, in
\* either loader; for any input the relationship-pattern loader stores no
\* such edge (the relationship of an orphan row is absent), while the
\* document-style loader stores the edge of every row, the orphan rows'
\* edges included.
C3_Amended ==
    pc = "done" =>
        /\ ValidInput(data) => Dangling(backend, store) = {}
        /\ backend = "memgraph" => Dangling(backend, store) = {}
        /\ backend = "arango" =>
              \A p \in RowEdges : BagIn(p[2], store[p[1]])

\* a completed document-style load of orders with an absent custkey, the
\* orphan row's customer_orders edge stored
C3_Witness ==
    /\ pc = "done"
    /\ backend = "arango"
    /\ data = Orphans
    /\ EdgeDoc(Id("customer", Str(AbsentKey)), Id("orders", Str(MaxRows)))
          \in Dangling(backend, store)

\* ceil(R / N)
CeilDiv(R, N) == IF R % N = 0 THEN R \div N ELSE (R \div N) + 1

\* the loads that go through the batch committer: every table of the
\* relationship-pattern loader, lineitem of the document-style loader
Batched(t) == backend = "memgraph" \/ t = "lineitem"

\* C4: for a list of R >= 0 records and batch size N > 0 the batch committer
\* issues ceil(R/N) write calls (per target container); every chunk but the
\* last has N records, the last has R mod N records, or N when N divides R;
\* the k-th chunk (from 0) carries the records k*N+1 .. k*N+len in order, so
\* the chunks concatenated in the order written are the record sequence.
C4_Batching ==
    \A t \in Tables : (Batched(t) /\ LoadReturned(t)) =>
        \A c \in Targets(backend, t) :
            LET P == CallsTo(t, c)
                R == Len(data[t])
                N == batch_size
                n == CeilDiv(R, N)
            IN  /\ Cardinality(P) = n
                /\ \A i \in P :
                      LET k == Cardinality({j \in P : j < i})
                          rows == log[i].rows
                      IN  /\ log[i].ok
                          /\ Len(rows) = IF k < n - 1 THEN N
                                         ELSE IF R % N = 0 THEN N
                                         ELSE R % N
                          /\ \A j \in DOMAIN rows : rows[j] = k * N + j

\* a completed lineitem load whose last chunk is a partial one, after a
\* full chunk
C4_Witness ==
    /\ pc = "done"
    /\ Len(data["lineitem"]) > batch_size
    /\ Len(data["lineitem"]) % batch_size # 0
    /\ Cardinality(CallsTo("lineitem", "lineitem")) >= 2

\* C5 as stated: in both loaders no write call carries more records than
\* the batch size.
C5_AllChunked ==
    \A i \in DOMAIN log : IsWrite(log[i]) => Len(log[i].rows) <= batch_size

\* C5 amended: every write call of the relationship-pattern loader, and
\* every lineitem write call of the document-style loader, carries at most
\* batch-size records; the document-style loader writes the vertex list and
\* each edge list of every other table with one insert_many call that
\* carries all rows of the table, whatever their number.
C5_Amended ==
    \A i \in DOMAIN log : IsWrite(log[i]) =>
        IF Batched(log[i].table)
        THEN Len(log[i].rows) <= batch_size
        ELSE /\ Len(log[i].rows) = Len(data[log[i].table])
             /\ \A j \in DOMAIN log :
                   (log[j].table = log[i].table /\ log[j].coll = log[i].coll)
                      => j = i

\* the document-style loader has written an orders list longer than the
\* batch size in one call, and lineitem chunks within the batch size
C5_Witness ==
    /\ backend = "arango"
    /\ pc = "done"
    /\ \E i \in DOMAIN log :
          /\ log[i].table = "orders"
          /\ Len(log[i].rows) > batch_size
    /\ \E i \in DOMAIN log :
          /\ log[i].table = "lineitem"
          /\ log[i].chunk >= 1

\* a write of chunk `chunk` of table LoadOrder[tbl] raised
ChunkFailed ==
    /\ pc = "aborted"
    /\ log # <<>>
    /\ ~Last(log).ok

\* the records made from a row of table t are in store s: the row's vertex
\* and edge documents (arango); the node and the relationships the query
\* merges or creates for the row when its MATCH clauses succeed (memgraph)
Stored(s, t, row) ==
    IF backend = "arango"
    THEN \A c \in Range(Writes[t]) : BagIn(ArangoDoc(c, row), s[c])
    ELSE IF t = "lineitem"
    THEN (/\ Match(s, "Order", row.orderkey)
          /\ Match(s, "Part", row.partkey)
          /\ Match(s, "Supplier", row.suppkey)) => BagIn(row, s["LineItem"])
    ELSE ExecRow(s, t, row) = s

\* C6 as stated: if the write of chunk k of a table fails, the records of
\* chunks 0..k-1 of the table are in the store, the store holds nothing
\* that it did not hold when chunk k was begun, and chunk k is the last
\* chunk attempted.
C6_ChunkAtomic ==
    ChunkFailed =>
        /\ \A r \in 1..Min(chunk * batch_size, NumRows) :
              Batched(Table) => Stored(store, Table, data[Table][r])
        /\ store = chunkBase
        /\ Last(log).table = Table /\ Last(log).chunk = chunk

\* C6 amended: if a write of chunk k of a table fails, every record of
\* chunks 0..k-1 stays committed, no later chunk is attempted and no record
\* of a later chunk is in the store; of chunk k the relationship-pattern
\* loader stores nothing, and the document-style loader keeps the records
\* of the insert_many calls of chunk k that returned before the failing one
\* and nothing of the failing call or of the calls after it.
C6_Amended ==
    ChunkFailed =>
        /\ \A r \in 1..Min(chunk * batch_size, NumRows) :
              Batched(Table) => Stored(store, Table, data[Table][r])
        /\ backend = "memgraph" => store = chunkBase
        /\ backend = "arango" =>
              \A c \in DOMAIN store :
                 LET ix == ChunkRows(backend, Table, NumRows, batch_size, chunk)
                     docs == [j \in DOMAIN ix |-> ArangoDoc(c, data[Table][ix[j]])]
                 IN  store[c] =
                        IF \E n \in 1..(w - 1) : Writes[Table][n] = c
                        THEN InsertMany(chunkBase, c, docs)[c]
                        ELSE chunkBase[c]
        /\ Last(log).table = Table /\ Last(log).chunk = chunk
        /\ \A i \in DOMAIN log :
              \/ PosInOrder(log[i].table) < tbl
              \/ log[i].table = Table /\ log[i].chunk <= chunk
        /\ \A i \in DOMAIN log : ~log[i].ok => i = Len(log)

\* an edge write of a later lineitem chunk of the document-style loader
\* failed after the chunk's vertices were inserted
C6_Witness ==
    /\ ChunkFailed
    /\ backend = "arango"
    /\ Last(log).table = "lineitem"
    /\ chunk >= 1
    /\ w > 1
    /\ store # chunkBase

C8_FailureTerminal ==
    \A i \in DOMAIN log : ~log[i].ok =>
        /\ i = Len(log)
        /\ pc = "aborted"
        /\ Last(started) = log[i].table

\* a write of a table that is not the last one raised, with rows and
\* tables left to write
C8_Witness ==
    /\ pc = "aborted"
    /\ log # <<>>
    /\ ~Last(log).ok
    /\ Last(log).table = "nation"
    /\ Len(data["lineitem"]) > 0

\* C9 as stated: an error raised by a step other than schema/index setup
\* ends the run.
C9_ErrorsTerminate ==
    [][(faults' = faults + 1 /\ pc \notin {"setup", "indices"})
          => pc' = "aborted"]_vars

\* C9 amended: an error raised by connect, by the document-style clear, by
\* a data write or commit, by the graph declaration or by close ends the
\* run, and no step of the run executes after it; an error raised by the
\* clear of the relationship-pattern loader is caught like an error of an
\* index creation, and the run goes on with setup and load.
C9_Amended ==
    [][/\ (faults' = faults + 1) =>
             IF pc = "clear" /\ backend = "memgraph"
             THEN pc' = "indices"
             ELSE IF pc = "indices"
             THEN pc' \in {"indices", "load"}
             ELSE pc' = "aborted"
       /\ pc = "aborted" => (pc' = "connect" /\ run' = run + 1)]_vars

\* the clear of the relationship-pattern loader raised in the first run,
\* and the run has gone on to load
C9_Witness ==
    /\ backend = "memgraph"
    /\ run = 1
    /\ pc = "load"
    /\ faults = 1
    /\ ~warned
    /\ started # <<>>

\* C10: a further run of the entry point on the same input, after a
\* completed run or after a run that aborted, in which no call raises,
\* leaves the store with the vertices and edges of one run against an
\* empty store.
C10_RerunSameStore ==
    (pc = "done" /\ run > 1 /\ faults = faults0) => store = expect

\* the store is empty as the running loader sees it: the collections of the
\* document store; the open transaction of the relationship-pattern loader
Visible == IF backend = "arango" THEN store ELSE work

\* the clear step of this run has just returned to main()
ClearReturned ==
    \/ backend = "arango" /\ pc = "setup"
    \/ backend = "memgraph" /\ pc = "indices" /\ idx = 0

\* C11: when the clear operation has returned without any call of this run
\* raising, whatever the store held before (nothing, a complete load, the
\* part of a load an aborted run left, a graph with all, some or none of
\* its edge definitions), the store holds no vertex record and no edge
\* record.
C11_ClearEmpties ==
    (ClearReturned /\ faults = faults0) => Visible = EmptyStore(backend)

\* the node label that the query of a table merges; the partsupp query
\* merges a relationship only and the lineitem query creates its nodes
MergedLabel == [region |-> "Region", nation |-> "Nation",
                supplier |-> "Supplier", customer |-> "Customer",
                part |-> "Part", orders |-> "Order"]

\* number of records of a container, copies counted
Count(B) == BagCardinality(B)

\* C12: in the relationship-pattern loader, when the load of a
\* non-lineitem table has returned, the store holds as many vertices of
\* the table as one load of the same file into an empty store leaves,
\* however many loads of the table went before without a clear.
C12_MergeIdempotent ==
    backend = "memgraph" =>
        \A t \in DOMAIN MergedLabel : LoadReturned(t) =>
            Count(store[MergedLabel[t]]) = Count(expect[MergedLabel[t]])

\* a second run whose clear raised, so that every table was loaded a
\* second time over the nodes of the first run, has completed
C12_Witness ==
    /\ backend = "memgraph"
    /\ run > 1
    /\ pc = "done"
    /\ faults > faults0
    /\ ~warned
    /\ Count(store["Order"]) = MaxRows

\* every lineitem row references an order, a part and a supplier that the
\* source files hold
EndpointsPresent(d) ==
    /\ Column(d, "lineitem", "orderkey") \subseteq Column(d, "orders", "orderkey")
    /\ Column(d, "lineitem", "partkey") \subseteq Column(d, "part", "partkey")
    /\ Column(d, "lineitem", "suppkey") \subseteq Column(d, "supplier", "suppkey")

\* the relationship types the lineitem query creates
LineitemRels == {"CONTAINS", "OF_PART", "SUPPLIED_BY"}

\* C13: in the relationship-pattern loader, when the store holds the
\* records of k complete lineitem loads of the same R rows (all endpoints
\* present, no clear in between), it holds k*R LineItem nodes and k*R
\* relationships of each of the three lineitem relationship types.
C13_LineitemDuplicates ==
    (backend = "memgraph" /\ EndpointsPresent(data) /\ loads >= 0) =>
        /\ Count(store["LineItem"]) = loads * Len(data["lineitem"])
        /\ \A c \in LineitemRels :
              Count(store[c]) = loads * Len(data["lineitem"])

\* two complete lineitem loads without a clear in between are in the store
C13_Witness ==
    /\ backend = "memgraph"
    /\ EndpointsPresent(data)
    /\ loads = 2
    /\ Len(data["lineitem"]) = MaxRows
    /\ Count(store["LineItem"]) = 2 * MaxRows

\* the natural key of a row of table t: the key column, or the pair of
\* columns that the composite key is made of
NaturalKey(t, row) ==
    CASE t = "region"   -> <<row.regionkey>>
      [] t = "nation"   -> <<row.nationkey>>
      [] t = "supplier" -> <<row.suppkey>>
      [] t = "customer" -> <<row.custkey>>
      [] t = "part"     -> <<row.partkey>>
      [] t = "partsupp" -> <<row.partkey, row.suppkey>>
      [] t = "orders"   -> <<row.orderkey>>
      [] t = "lineitem" -> <<row.orderkey, row.linenumber>>

\* the natural keys that occur in the file of table t
KeysOf(d, t) == {NaturalKey(t, d[t][i]) : i \in DOMAIN d[t]}

\* no two rows of the file of table t have the same natural key
UniqueKeys(d, t) == Cardinality(KeysOf(d, t)) = Len(d[t])

NonLineitem == Tables \ {"lineitem"}

KeyColumn == [region |-> "regionkey", nation |-> "nationkey",
              supplier |-> "suppkey", customer |-> "custkey",
              part |-> "partkey", orders |-> "orderkey"]

\* the nine foreign-key relationships of the schema: the edge collection
\* of the document-style loader, the file whose rows make the edges, the
\* tables at the two ends in the direction of the foreign key, and the
\* relationship type the relationship-pattern loader writes for those
\* two tables in that direction ("none" where no query writes one)
Relations ==
    {[coll |-> "nation_region", file |-> "nation", from |-> "nation",
      to |-> "region", type |-> "BELONGS_TO"],
     [coll |-> "supplier_nation", file |-> "supplier", from |-> "supplier",
      to |-> "nation", type |-> "LOCATED_IN"],
     [coll |-> "customer_nation", file |-> "customer", from |-> "customer",
      to |-> "nation", type |-> "LOCATED_IN"],
     [coll |-> "customer_orders", file |-> "orders", from |-> "customer",
      to |-> "orders", type |-> "PLACED"],
     [coll |-> "order_lineitems", file |-> "lineitem", from |-> "orders",
      to |-> "lineitem", type |-> "CONTAINS"],
     [coll |-> "lineitem_part", file |-> "lineitem", from |-> "lineitem",
      to |-> "part", type |-> "OF_PART"],
     [coll |-> "lineitem_supplier", file |-> "lineitem", from |-> "lineitem",
      to |-> "supplier", type |-> "SUPPLIED_BY"],
     [coll |-> "partsupp_part", file |-> "partsupp", from |-> "partsupp",
      to |-> "part", type |-> "none"],
     [coll |-> "partsupp_supplier", file |-> "partsupp", from |-> "partsupp",
      to |-> "supplier", type |-> "none"]}

\* the natural key of the row of table t that a row of file f stands for
\* or references
EndKey(t, f, row) ==
    IF t = f THEN NaturalKey(f, row) ELSE <<row[KeyColumn[t]]>>

\* the key pairs (from key, to key) that the rows of the file of
\* relationship r relate
FKPairs(d, r) ==
    {<<EndKey(r.from, r.file, d[r.file][i]), EndKey(r.to, r.file, d[r.file][i])>>
        : i \in DOMAIN d[r.file]}

\* the label of the nodes the relationship-pattern loader makes for a table
NodeLabel == [region |-> "Region", nation |-> "Nation",
              supplier |-> "Supplier", customer |-> "Customer",
              part |-> "Part", orders |-> "Order", lineitem |-> "LineItem"]

\* the _from / _to identifier of the vertex document of the row of table
\* t with natural key k
ArangoId(t, k) ==
    Id(t, IF Len(k) = 1 THEN Str(k[1]) ELSE CompositeKey(k[1], k[2]))

\* the natural key of the row a node of the relationship-pattern loader
\* was made from: its key property, or the orderkey and linenumber
\* properties of a LineItem node
KeyOfNode(n) ==
    IF n[1] = "LineItem" THEN <<n[2].orderkey, n[2].linenumber>> ELSE <<n[2]>>

\* natural keys of the rows of table t that an edge record may stand for:
\* those of the file, and the key no file has
KeysAround(d, t) ==
    KeysOf(d, t) \cup
        (IF t \in {"partsupp", "lineitem"} THEN {} ELSE {<<AbsentKey>>})

\* the key pairs (from key, to key) of the edge records that store s of
\* backend b holds for relationship r
StoredPairs(b, s, d, r) ==
    IF b = "arango"
    THEN {p \in KeysAround(d, r.from) \X KeysAround(d, r.to) :
             BagIn(EdgeDoc(ArangoId(r.from, p[1]), ArangoId(r.to, p[2])),
                   s[r.coll])}
    ELSE IF r.type = "none" THEN {}
    ELSE {<<KeyOfNode(e.from), KeyOfNode(e.to)>> :
             e \in {x \in BagToSet(s[r.type]) :
                       /\ x.from[1] = NodeLabel[r.from]
                       /\ x.to[1] = NodeLabel[r.to]}}

\* number of vertex records that store s of backend b holds for table t
VertexCount(b, s, t) ==
    IF b = "arango" THEN Count(s[t])
    ELSE IF t = "partsupp" THEN 0
    ELSE Count(s[NodeLabel[t]])

\* the key pairs (supplier key, part key) of the SUPPLIES relationships
SuppliesPairs(s) ==
    {<<KeyOfNode(e.from), KeyOfNode(e.to)>> :
        e \in {x \in BagToSet(s["SUPPLIES"]) :
                  x.from[1] = "Supplier" /\ x.to[1] = "Part"}}

\* every table's file has distinct natural keys
AllUnique(d) == \A t \in Tables : UniqueKeys(d, t)

\* main() has returned from a first run, so one load ran on an empty store
LoadedOnce == pc = "done" /\ run = 1

\* C15 as stated: for a referentially valid input (keys distinct within
\* each file) the store of either loader holds, for every source table,
\* as many vertices as the file has rows and, for every foreign-key
\* relationship, exactly the key pairs of the file's rows: both loaders
\* hold the same content, partsupp included as a vertex kind with its two
\* edges.
C15_SameContent ==
    (LoadedOnce /\ ValidInput(data) /\ AllUnique(data)) =>
        /\ \A t \in Tables : VertexCount(backend, store, t) = Len(data[t])
        /\ \A r \in Relations :
              StoredPairs(backend, store, data, r) = FKPairs(data, r)

\* C15 amended: for a referentially valid input the two loaders hold the
\* same vertex counts and the same key pairs for every table and
\* relationship except partsupp (and except a lineitem file that repeats
\* a key): the document-style loader holds one vertex per distinct key
\* of every table and all nine relationships; the relationship-pattern
\* loader holds no partsupp vertex and neither partsupp relationship, but
\* one SUPPLIES relationship supplier -> part per distinct pair, and one
\* LineItem node per lineitem row.
C15_Amended ==
    (LoadedOnce /\ ValidInput(data)) =>
        /\ \A t \in Tables \ {"partsupp", "lineitem"} :
              VertexCount(backend, store, t) = Cardinality(KeysOf(data, t))
        /\ \A r \in Relations : r.file # "partsupp" =>
              StoredPairs(backend, store, data, r) = FKPairs(data, r)
        /\ backend = "arango" =>
              /\ \A t \in {"partsupp", "lineitem"} :
                    VertexCount(backend, store, t) = Cardinality(KeysOf(data, t))
              /\ \A r \in Relations : r.file = "partsupp" =>
                    StoredPairs(backend, store, data, r) = FKPairs(data, r)
        /\ backend = "memgraph" =>
              /\ VertexCount(backend, store, "partsupp") = 0
              /\ VertexCount(backend, store, "lineitem") = Len(data["lineitem"])
              /\ \A r \in Relations : r.file = "partsupp" =>
                    StoredPairs(backend, store, data, r) = {}
              /\ SuppliesPairs(store) =
                    {<< <<data["partsupp"][i].suppkey>>,
                        <<data["partsupp"][i].partkey>> >>
                        : i \in DOMAIN data["partsupp"]}

\* the relationship-pattern loader has loaded a valid input with MaxRows
\* partsupp rows: the store has SUPPLIES relationships and no vertex or
\* edge of partsupp
C15_Witness ==
    /\ LoadedOnce
    /\ backend = "memgraph"
    /\ ValidInput(data)
    /\ AllUnique(data)
    /\ Len(data["partsupp"]) = MaxRows
    /\ Cardinality(SuppliesPairs(store)) = MaxRows

\* the tables whose rows an edge endpoint x of backend b may stand for
EndTables(b, d, x) ==
    IF b = "arango"
    THEN {t \in Tables : \E k \in KeysAround(d, t) : x = ArangoId(t, k)}
    ELSE {t \in DOMAIN NodeLabel : NodeLabel[t] = x[1]}

\* the (from table, to table) pairs of the declared relationships
Declared == {<<r.from, r.to>> : r \in Relations}

\* the (from table, to table) pair of an edge record of the store
Direction(b, d, e) == EndTables(b, d, e.from) \X EndTables(b, d, e.to)

\* the edge records of all edge containers of a store
AllEdges(b, s) == UNION {BagToSet(s[c]) : c \in EdgeContainers(b)}

\* C16 as stated: every edge in the store of either loader runs from the
\* referencing table to the referenced table of one of the nine declared
\* relationships; none is swapped and none joins another pair of tables.
C16_Directions ==
    \A e \in AllEdges(backend, store) :
        /\ Direction(backend, data, e) # {}
        /\ Direction(backend, data, e) \subseteq Declared

\* the edge records that a step adds to container c
Written(c) == BagToSet(store'[c]) \ BagToSet(store[c])

\* C16 amended: every edge that the document-style loader writes goes to
\* the edge collection of one of the nine declared relationships and has
\* that relationship's direction; every relationship that the
\* relationship-pattern loader writes has the direction of one of the
\* seven declared relationships that do not involve partsupp, or is a
\* SUPPLIES relationship, which runs supplier -> part.
C16_Amended ==
    [][/\ backend = "arango" =>
             \A r \in Relations : \A e \in Written(r.coll) :
                 Direction(backend, data, e) = {<<r.from, r.to>>}
       /\ backend = "memgraph" =>
             /\ \A r \in Relations : r.type # "none" =>
                   \A e \in Written(r.type) :
                       \E q \in Relations :
                           /\ q.type = r.type
                           /\ Direction(backend, data, e) = {<<q.from, q.to>>}
             /\ \A e \in Written("SUPPLIES") :
                   Direction(backend, data, e) = {<<"supplier", "part">>}]_vars

\* the relationship-pattern loader has written SUPPLIES relationships and
\* the relationships of lineitem
C16_Witness ==
    /\ backend = "memgraph"
    /\ pc = "done"
    /\ Count(store["SUPPLIES"]) = MaxRows
    /\ Count(store["CONTAINS"]) = MaxRows
    /\ Count(store["PLACED"]) = MaxRows

\* the sizes of the batches that the lineitem load of backend b emits for
\* a file of R rows and batch size N, in order
BatchSizes(b, R, N) ==
    [k \in 1..NumChunks(b, "lineitem", R, N) |->
        Len(ChunkRows(b, "lineitem", R, N, k - 1))]

\* a file of 2500 rows loaded with batch size 1000 goes out as batches of
\* 1000, 1000 and 500 rows, in both loaders
Batches2500 ==
    \A b \in Backends : BatchSizes(b, 2500, 1000) = <<1000, 1000, 500>>

\* the containers that hold the three kinds of lineitem edges
LineitemEdges(b) ==
    IF b = "arango"
    THEN {"order_lineitems", "lineitem_part", "lineitem_supplier"}
    ELSE LineitemRels

\* the batches of the lineitem load that this run has emitted: the row
\* numbers of each call that carried lineitem vertices, in order
EmittedBatches ==
    LET c == "lineitem"
        calls == SelectSeq(log, LAMBDA e : e.table = "lineitem" /\ e.coll = c
                                           /\ IsWrite(e))
    IN  [i \in DOMAIN calls |-> Len(calls[i].rows)]

\* the lineitem load of a first run has returned, and every lineitem row
\* references an order, a part and a supplier that were loaded before
LineitemLoaded ==
    /\ run = 1
    /\ LoadReturned("lineitem")
    /\ EndpointsPresent(data)

NationRegion(b) == IF b = "arango" THEN "nation_region" ELSE "BELONGS_TO"

\* the endpoint that stands for the row with key k of a single-key table
EndOf(b, t, k) == IF b = "arango" THEN ArangoId(t, <<k>>) ELSE Node(NodeLabel[t], k)

\* number of nation -> region edge records of store s that leave nation k
\* for region g
EdgesBetween(b, s, k, g) ==
    Copies(s[NationRegion(b)],
           [from |-> EndOf(b, "nation", k), to |-> EndOf(b, "region", g)])

RECURSIVE SumOver(_, _)
SumOver(f, S) ==
    IF S = {} THEN 0
    ELSE LET x == CHOOSE y \in S : TRUE
         IN  f[x] + SumOver(f, S \ {x})

\* number of nation -> region edges that leave nation k
OutEdges(b, s, d, k) ==
    SumOver([g \in Column(d, "region", "regionkey") |->
                EdgesBetween(b, s, k, g)],
            Column(d, "region", "regionkey"))

\* number of nation -> region edges that enter region g ("nodes per
\* region")
InEdges(b, s, d, g) ==
    SumOver([k \in Column(d, "nation", "nationkey") |->
                EdgesBetween(b, s, k, g)],
            Column(d, "nation", "nationkey"))

\* the vertex of the row with key k of a single-key table is in store s
HasVertex(b, s, t, k) ==
    IF b = "arango" THEN BagIn(Str(k), s[t]) ELSE Match(s, NodeLabel[t], k)

\* region and then nation were loaded by a first run, and every nation row
\* references a region key of the region file
NationLoaded ==
    /\ run = 1
    /\ LoadReturned("nation")
    /\ Column(data, "nation", "regionkey") \subseteq
          Column(data, "region", "regionkey")

Composite == {"partsupp", "lineitem"}

\* over the key values 0..MaxKey: the string forms of two keys are equal
\* only for equal keys, and two key pairs get the same "<a>_<b>" only when
\* they are the same pair
KeysInjective ==
    /\ \A a, b \in 0..MaxKey : Str(a) = Str(b) <=> a = b
    /\ \A a, b, c, e \in 0..MaxKey :
          CompositeKey(a, b) = CompositeKey(c, e) <=> (a = c /\ b = e)

\* the identity keys of the vertex documents that the loads of this run
\* have sent to the collection of table t
SentKeys(t) ==
    UNION {{DocKey(t, data[t][log[i].rows[j]]) : j \in DOMAIN log[i].rows}
              : i \in CallsTo(t, t)}

\* C19: the identity key of a row is the string form of its natural key,
\* or "<keyA>_<keyB>" for partsupp (partkey, suppkey) and lineitem
\* (orderkey, linenumber); two rows of one table get the same identity key
\* exactly when they have the same natural key or key pair (compared, for
\* the rows of the files, when a run starts: the files do not change); and
\* a row yields the same key in every run, so a load sends exactly the
\* keys of the file's rows and the collection holds one document per key.
C19_IdentityKey ==
    /\ KeysInjective
    /\ pc = "connect" => \A t \in Tables : \A i, j \in DOMAIN data[t] :
          LET ri == data[t][i]
              rj == data[t][j]
              k == NaturalKey(t, ri)
          IN  /\ DocKey(t, ri) = DocKey(t, rj) <=>
                    NaturalKey(t, ri) = NaturalKey(t, rj)
              /\ t \notin Composite => DocKey(t, ri) = Str(k[1])
              /\ t \in Composite =>
                    DocKey(t, ri) = Str(k[1]) \o "_" \o Str(k[2])
    /\ backend = "arango" =>
          \A t \in Tables : LoadReturned(t) =>
              LET sent == SentKeys(t)
              IN  /\ sent = {DocKey(t, data[t][i]) : i \in DOMAIN data[t]}
                  /\ BagToSet(store[t]) = sent
                  /\ \A k \in sent : Copies(store[t], k) = 1
                  /\ Cardinality(sent) = Cardinality(KeysOf(data, t))

\* a second run of the document-style loader has loaded the file whose
\* two partsupp key pairs and two lineitem key pairs are made of the same
\* digits: the collections hold two documents each
C19_Witness ==
    /\ backend = "arango"
    /\ run = 2
    /\ pc = "done"
    /\ data = TwoDigit
    /\ Count(store["partsupp"]) = 2
    /\ Count(store["lineitem"]) = 2
    /\ BagIn(CompositeKey(1, 12), store["lineitem"])
    /\ BagIn(CompositeKey(11, 2), store["lineitem"])

\* the steps of main() in the order of the calls; "setup" and "indices"
\* are the two parts of the setup step, "graph" and "edge_defs" the two
\* parts of the graph declaration
StepOf == [connect |-> 1, clear |-> 2, setup |-> 3, indices |-> 3,
           load |-> 4, graph |-> 5, edge_defs |-> 5, close |-> 6,
           done |-> 7]

\* the step that follows step n in the entry point of backend b
StepAfter(b, n) == IF b = "memgraph" /\ n = 4 THEN 6 ELSE n + 1

\* C20: within one run the entry point goes through connect, clear, setup,
\* load, (document-style loader only) graph declaration, close, in this
\* order, each step entered once and only from the step before it; data is
\* written only in the load step, after clear and setup have returned; and
\* the document-style loader closes with the graph and its edge
\* definitions declared, while the other loader never declares a graph.
C20_StepOrder ==
    /\ [][(run' = run /\ pc' # pc /\ pc' # "aborted") =>
             /\ pc \in DOMAIN StepOf
             /\ pc' \in DOMAIN StepOf
             /\ \/ StepOf[pc'] = StepOf[pc] /\ <<pc, pc'>> \in
                      {<<"setup", "indices">>, <<"graph", "edge_defs">>}
                \/ StepOf[pc'] = StepAfter(backend, StepOf[pc])]_vars
    /\ [][(run' = run /\ log' # log) =>
             /\ pc = "load"
             /\ pc' \in {"load", "graph", "close", "aborted"}]_vars
    /\ [][(run' = run /\ pc = "load" /\ pc' # "aborted"
              /\ \E c \in DOMAIN store : store'[c] # store[c]) =>
             log' # log]_vars
    /\ [](pc \in {"close", "done"} =>
             IF backend = "arango"
             THEN graph.exists /\
                  {d.edge_collection : d \in graph.defs} = Range(EDGES)
             ELSE graph = NoGraph)
    /\ [](backend = "memgraph" => pc \notin {"setup", "graph", "edge_defs"})

\* a run of the document-style loader has gone through every step and
\* returned, with data written and the graph declared
C20_Witness ==
    /\ backend = "arango"
    /\ pc = "done"
    /\ log # <<>>
    /\ Len(started) = Len(LoadOrder)
    /\ Cardinality(graph.defs) = Len(EDGES)

\* C21: during setup the failure of an index creation is swallowed: a
\* warning is printed, nothing stored changes, the next index creation is
\* attempted (or, after the last one, setup returns and the load starts);
\* the load is entered only after every index creation was attempted; and
\* once setup has returned with a warning the first table load can run.
C21_IndexFailureSwallowed ==
    /\ [][(pc = "indices" /\ faults' # faults) =>
             /\ warned'
             /\ idx' = idx + 1
             /\ pc' = IF idx + 1 = NumIndices(backend) THEN "load"
                      ELSE "indices"
             /\ UNCHANGED <<store, colls, graph, run>>]_vars
    /\ [][(pc = "indices" /\ pc' = "load") =>
             idx' = NumIndices(backend)]_vars
    /\ [](pc = "load" => idx = NumIndices(backend))
    /\ []((warned /\ pc = "load" /\ tbl = 1 /\ sub = "begin") =>
             ENABLED BeginTable)

\* an index creation failed during setup, and the run went on to load the
\* tables and returned
C21_Witness ==
    /\ warned
    /\ faults = faults0 + 1
    /\ pc = "done"
    /\ idx = NumIndices(backend)
    /\ Len(started) = Len(LoadOrder)
    /\ log # <<>>

\* the backend calls that one iteration of the write loop of table t makes,
\* in order, each awaited (or returned) before the next is issued
ChunkCalls(b, t) ==
    IF b = "arango"
    THEN [k \in DOMAIN Writes[t] |-> <<"insert_many", Writes[t][k]>>]
    ELSE << <<"execute", t>>, <<"commit", t>> >>

\* the place of a logged call among the calls of its chunk
CallPos(b, e) ==
    CHOOSE k \in DOMAIN ChunkCalls(b, e.table) :
        ChunkCalls(b, e.table)[k] = <<e.op, e.coll>>

\* C22: the calls of a run are issued one at a time; each is issued only
\* when the call before it has returned normally; the calls of chunk i of
\* a table are all issued (and have all returned) before the first call of
\* chunk i+1, and chunk indices go up by one from 0.
C22_ChunksInOrder ==
    [][(run' = run /\ log' # log) =>
          LET e == Last(log')
              n == Len(ChunkCalls(backend, e.table))
          IN  /\ Len(log') = Len(log) + 1
              /\ <<e.op, e.coll>> \in Range(ChunkCalls(backend, e.table))
              /\ e.chunk = chunk
              /\ CallPos(backend, e) = w
              /\ IF log = <<>> \/ Last(log).table # e.table
                 THEN /\ e.chunk = 0
                      /\ CallPos(backend, e) = 1
                      /\ log # <<>> =>
                            /\ Last(log).ok
                            /\ CallPos(backend, Last(log)) =
                                  Len(ChunkCalls(backend, Last(log).table))
                 ELSE LET p == Last(log)
                      IN  /\ p.ok
                          /\ \/ /\ e.chunk = p.chunk
                                /\ CallPos(backend, e) = CallPos(backend, p) + 1
                             \/ /\ e.chunk = p.chunk + 1
                                /\ CallPos(backend, p) = n
                                /\ CallPos(backend, e) = 1]_vars

\* the lineitem file was loaded in two chunks and the run returned: the
\* log ends with the last call of the second chunk
C22_Witness ==
    /\ pc = "done"
    /\ log # <<>>
    /\ Last(log).table = "lineitem"
    /\ Last(log).chunk = 1
    /\ Last(log).ok
    /\ Len(data["lineitem"]) > batch_size

\* the containers that receive the records derived from a lineitem row
LineitemContainers(b) ==
    IF b = "arango" THEN Range(Writes["lineitem"])
    ELSE {"LineItem"} \cup LineitemRels

\* the record of container c that the lineitem load derives from a row
Derived(b, c, row) ==
    IF b = "arango" THEN ArangoDoc(c, row)
    ELSE CASE c = "LineItem" -> row
           [] c = "CONTAINS" ->
                 EdgeDoc(Node("Order", row.orderkey), Node("LineItem", row))
           [] c = "OF_PART" ->
                 EdgeDoc(Node("LineItem", row), Node("Part", row.partkey))
           [] c = "SUPPLIED_BY" ->
                 EdgeDoc(Node("LineItem", row), Node("Supplier", row.suppkey))

\* C23: every record-carrying call of the lineitem load carries exactly
\* the rows of its chunk, so the vertex and the three edges of a row are
\* sent in the same chunk iteration; the records a call adds all derive
\* from rows of its chunk, it adds nothing to any other container and
\* removes nothing; in the relationship-pattern loader a call adds a
\* row's node and its three relationships in equal numbers, and in the
\* document-style loader every document of the call is in the collection
\* when the call returns.
C23_RowsNotSplit ==
    [][(run' = run /\ log' # log /\ Last(log').table = "lineitem"
           /\ IsWrite(Last(log')) /\ Last(log').ok) =>
          LET e == Last(log')
              rows == RowsAt("lineitem", e.rows)
              old == IF backend = "arango" THEN store ELSE work
              new == IF backend = "arango" THEN store' ELSE work'
              touched == IF backend = "arango" THEN {e.coll}
                         ELSE LineitemContainers(backend)
              derived(c) == {Derived(backend, c, rows[j]) : j \in DOMAIN rows}
          IN  /\ e.rows = ChunkRows(backend, "lineitem", Len(data["lineitem"]),
                                    batch_size, e.chunk)
              /\ e.rows # <<>>
              /\ touched \subseteq LineitemContainers(backend)
              /\ \A c \in DOMAIN old :
                    /\ old[c] \sqsubseteq new[c]
                    /\ c \notin touched => new[c] = old[c]
                    /\ c \in touched =>
                          BagToSet(new[c] (-) old[c]) \subseteq derived(c)
              /\ backend = "arango" =>
                    \A d \in derived(e.coll) : BagIn(d, new[e.coll])
              /\ backend = "memgraph" =>
                    \A j \in DOMAIN rows : \A c \in touched :
                        Copies(new[c] (-) old[c], Derived(backend, c, rows[j]))
                           = Copies(new["LineItem"] (-) old["LineItem"], rows[j])]_vars

\* the document-style loader has loaded a lineitem file of MaxRows rows in
\* two chunks: the second chunk's calls carried the rows after the first
\* batch_size rows, and every edge collection holds one edge per row
C23_Witness ==
    /\ backend = "arango"
    /\ pc = "done"
    /\ data = Uniform(MaxRows)
    /\ batch_size = MaxBatch
    /\ MaxBatch < MaxRows
    /\ \A c \in LineitemContainers(backend) :
          /\ Count(store[c]) = MaxRows
          /\ \E i \in CallsTo("lineitem", c) :
                log[i].chunk = 1 /\ log[i].rows[1] = MaxBatch + 1

\* setup of the document-style loader has created its collections
SetupReturned ==
    /\ backend = "arango"
    /\ pc \in {"indices", "load", "graph", "edge_defs", "close", "done"}

\* C24: in the document-style loader, once setup has created its
\* collections all 8 vertex and all 9 edge collections exist; a step of
\* setup removes no collection and no stored record; and applying the
\* collection creation to its own result changes nothing.
C24_SetupIdempotent ==
    /\ [](SetupReturned =>
             /\ Range(VERTICES) \cup Range(EDGES) \subseteq colls
             /\ Cardinality(Range(VERTICES)) = 8
             /\ Cardinality(Range(EDGES)) = 9
             /\ create_collections(colls) = colls)
    /\ [][(backend = "arango" /\ pc \in {"setup", "indices"}
              /\ pc' # "aborted") =>
             /\ colls \subseteq colls'
             /\ store' = store
             /\ graph' = graph
             /\ pc = "setup" =>
                   /\ colls' = create_collections(colls)
                   /\ create_collections(colls') = colls'
             /\ pc = "indices" => colls' = colls]_vars

\* setup ran in a second run on a database in which the first run had left
\* collections with records: the records are still there after it
C24_Witness ==
    /\ backend = "arango"
    /\ run = 2
    /\ pc = "indices"
    /\ idx = 0
    /\ log = <<>>
    /\ Count(store["region"]) = MaxRows
    /\ Range(VERTICES) \cup Range(EDGES) \subseteq colls

\* ---------------------------------------------------------------------
\* batch_load as a function of its arguments: any table's rows, and a
\* batch size that the caller may pass as zero or negative
\* ---------------------------------------------------------------------
\* the batch sizes batch_load is called with
BatchArgs == (0 - MaxBatch)..MaxBatch

\* range(0, R, N) for an integer N other than 0 and R >= 0: with a
\* negative step the range from 0 up to R is empty
range(R, N) == IF N > 0 THEN RangeStarts(R, N) ELSE {}

InitBatch ==
    /\ backend = "memgraph"
    /\ data \in Inputs
    /\ batch_size \in BatchArgs
    /\ tbl \in 1..Len(LoadOrder)
    /\ pc = "batch_load"
    /\ sub = "begin"
    /\ chunk = 0
    /\ w = 1
    /\ idx = 0
    /\ gi = 0
    /\ warned = FALSE
    /\ store = EmptyStore(backend)
    /\ work = EmptyStore(backend)
    /\ colls = {}
    /\ graph = NoGraph
    /\ log = <<>>
    /\ started = <<>>
    /\ run = 1
    /\ faults = 0
    /\ expect = EmptyStore(backend)
    /\ chunkBase = EmptyStore(backend)
    /\ faults0 = 0
    /\ kept = 0
    /\ loads = 0

\* batch_load is entered: total_batches is computed (a division by
\* batch_size, ZeroDivisionError when it is 0) and the loop over
\* range(0, len(data), batch_size) starts, or ends at once when the range
\* is empty
batch_load ==
    /\ pc = "batch_load"
    /\ IF batch_size = 0
       THEN /\ pc' = "aborted"
            /\ UNCHANGED sub
       ELSE IF range(NumRows, batch_size) = {}
       THEN /\ pc' = "returned"
            /\ UNCHANGED sub
       ELSE /\ pc' = "load"
            /\ sub' = "write"
    /\ started' = Append(started, Table)
    /\ UNCHANGED <<config, history, tbl, chunk, w, idx, gi, warned, store,
                   work, colls, graph, log, run, faults>>

\* self.cursor.execute(query, {"rows": batch})
batch_loadExecute ==
    /\ pc = "load"
    /\ sub = "write"
    /\ w = 1
    /\ LET ix == ChunkRows(backend, Table, NumRows, batch_size, chunk)
       IN  /\ work' = Execute(work, Table, RowsAt(Table, ix))
           /\ log' = Append(log, Call("execute", Table, ix, TRUE))
    /\ w' = 2
    /\ UNCHANGED <<config, history, pc, tbl, sub, chunk, idx, gi,
                   warned, store, colls, graph, started, run, faults>>

\* self.connection.commit(), then the next value of the range or the
\* return
batch_loadCommit ==
    /\ pc = "load"
    /\ sub = "write"
    /\ w = 2
    /\ store' = work
    /\ LET ix == ChunkRows(backend, Table, NumRows, batch_size, chunk)
       IN  log' = Append(log, Call("commit", Table, ix, TRUE))
    /\ IF chunk + 1 < Cardinality(range(NumRows, batch_size))
       THEN /\ chunk' = chunk + 1
            /\ w' = 1
            /\ UNCHANGED <<pc, sub>>
       ELSE /\ pc' = "returned"
            /\ sub' = "begin"
            /\ UNCHANGED <<chunk, w>>
    /\ UNCHANGED <<config, history, tbl, idx, gi, warned, work, colls,
                   graph, started, run, faults>>

\* execute or commit raises: batch_load catches nothing
batch_loadRaises ==
    /\ pc = "load"
    /\ sub = "write"
    /\ log' = Append(log, Call(IF w = 1 THEN "execute" ELSE "commit", Table,
                               ChunkRows(backend, Table, NumRows, batch_size,
                                         chunk), FALSE))
    /\ Raise
    /\ UNCHANGED <<config, history, position, idx, gi, warned,
                   store, colls, graph, started, run>>

NextBatch ==
    \/ batch_load
    \/ batch_loadExecute
    \/ batch_loadCommit
    \/ batch_loadRaises

SpecBatch == InitBatch /\ [][NextBatch]_vars

\* the row numbers that the execute calls of the log carried
RowsExecuted ==
    UNION {Range(log[i].rows) : i \in {j \in DOMAIN log : IsWrite(log[j])}}

\* C25: batch_load called with a batch size of 0 or less raises before it
\* issues any write, and whenever it returns normally every row it was
\* given has been carried by an execute call.
C25_BatchSizeChecked ==
    /\ (batch_size <= 0 /\ pc # "batch_load") =>
          (pc = "aborted" /\ log = <<>>)
    /\ pc = "returned" => RowsExecuted = 1..NumRows

\* C26: in the document-style loader, for every edge definition of the
\* graph, the collection that prefixes the _from identifier of every edge
\* record of the definition's edge collection is the from vertex
\* collection the definition declares, and the collection that prefixes
\* its _to identifier is the declared to vertex collection.
C26_DefinitionsMatchEdges ==
    backend = "arango" =>
        \A d \in graph.defs : \A e \in BagToSet(store[d.edge_collection]) :
            /\ EndTables(backend, data, e.from) = {d.from_vertex_collections}
            /\ EndTables(backend, data, e.to) = {d.to_vertex_collections}

\* the tables whose query merges the row's own node before it matches the
\* referenced node: the relationship type, and the referenced table with
\* the column that holds its key
RefOf == [nation   |-> [type |-> "BELONGS_TO", to |-> "region",
                        col |-> "regionkey"],
          supplier |-> [type |-> "LOCATED_IN", to |-> "nation",
                        col |-> "nationkey"],
          customer |-> [type |-> "LOCATED_IN", to |-> "nation",
                        col |-> "nationkey"],
          orders   |-> [type |-> "PLACED", to |-> "customer",
                        col |-> "custkey"]]

\* the relationship that the query of table t makes for a row: from the
\* row's node to the referenced node, except PLACED, which runs from the
\* customer to the order
RefRel(t, row) ==
    LET own == Node(NodeLabel[t], row[KeyColumn[t]])
        ref == Node(NodeLabel[RefOf[t].to], row[RefOf[t].col])
    IN  IF t = "orders" THEN EdgeDoc(ref, own) ELSE EdgeDoc(own, ref)

\* the order, the part and the supplier of a lineitem row are nodes of s
LineitemMatched(s, row) ==
    /\ Match(s, "Order", row.orderkey)
    /\ Match(s, "Part", row.partkey)
    /\ Match(s, "Supplier", row.suppkey)

\* the relationship-pattern loader runs for the first time, on an empty
\* store, and the load of table t has returned
FirstLoadOf(t) == backend = "memgraph" /\ run = 1 /\ LoadReturned(t)

\* C27: in the relationship-pattern loader a row whose referenced node is
\* absent raises nothing.  After the first load of nation, supplier,
\* customer or orders every row's own node is there and the row's
\* relationship is there exactly when the referenced node is; after the
\* load of partsupp a row's SUPPLIES relationship is there exactly when
\* its part and its supplier both are, and there is one relationship per
\* matched (supplier, part) pair; after the load of lineitem the number of
\* LineItem nodes, and of relationships of each lineitem type, is the
\* number of rows whose order, part and supplier are all there, and no
\* node stands for any other row.
C27_AbsentEndpoint ==
    /\ (backend = "memgraph" /\ faults = 0) => pc # "aborted"
    /\ \A t \in DOMAIN RefOf : FirstLoadOf(t) =>
          \A i \in DOMAIN data[t] :
              LET row == data[t][i]
              IN  /\ Match(store, NodeLabel[t], row[KeyColumn[t]])
                  /\ BagIn(RefRel(t, row), store[RefOf[t].type]) <=>
                        Match(store, NodeLabel[RefOf[t].to], row[RefOf[t].col])
    /\ FirstLoadOf("partsupp") =>
          LET matched == {i \in DOMAIN data["partsupp"] :
                             /\ Match(store, "Part", data["partsupp"][i].partkey)
                             /\ Match(store, "Supplier",
                                      data["partsupp"][i].suppkey)}
              rel(i) == EdgeDoc(Node("Supplier", data["partsupp"][i].suppkey),
                                Node("Part", data["partsupp"][i].partkey))
          IN  /\ \A i \in DOMAIN data["partsupp"] :
                    BagIn(rel(i), store["SUPPLIES"]) <=> i \in matched
              /\ Count(store["SUPPLIES"]) =
                    Cardinality({rel(i) : i \in matched})
    /\ FirstLoadOf("lineitem") =>
          LET rows == data["lineitem"]
              matched == {i \in DOMAIN rows : LineitemMatched(store, rows[i])}
          IN  /\ Count(store["LineItem"]) = Cardinality(matched)
              /\ \A c \in LineitemRels :
                    Count(store[c]) = Cardinality(matched)
              /\ \A i \in DOMAIN rows :
                    BagIn(rows[i], store["LineItem"]) <=> i \in matched

\* the relationship-pattern loader has loaded the files in which the last
\* row of every referencing table names an absent key: the last order is
\* there without its PLACED relationship, and only the lineitem rows
\* before the last have a LineItem node
C27_Witness ==
    /\ FirstLoadOf("lineitem")
    /\ pc = "done"
    /\ data = Orphans
    /\ Match(store, "Order", MaxRows)
    /\ ~BagIn(RefRel("orders", data["orders"][MaxRows]), store["PLACED"])
    /\ Count(store["PLACED"]) = MaxRows - 1
    /\ Count(store["SUPPLIES"]) = MaxRows - 1
    /\ Count(store["LineItem"]) = MaxRows - 1

\* document-style loader: the collections that belong to table t, its own
\* vertex collection and the edge collections made from its file
OwnCollections(t) == {t} \cup {r.coll : r \in {q \in Relations : q.file = t}}

\* relationship-pattern loader: the relationships that belong to table t,
\* as (type, from label, to label)
OwnRels(t) ==
    IF t = "partsupp" THEN {<<"SUPPLIES", "Supplier", "Part">>}
    ELSE {<<r.type, NodeLabel[r.from], NodeLabel[r.to]>> :
             r \in {q \in Relations : q.file = t /\ q.type # "none"}}

\* relationship-pattern loader: the label of the nodes that belong to
\* table t (partsupp has none)
OwnLabels(t) == IF t = "partsupp" THEN {} ELSE {NodeLabel[t]}

\* C28: a step of the load of table T adds records only to T's own vertex
\* container and to the edge containers of T's relationships, and removes
\* or replaces no record anywhere.  Document-style loader: the
\* collections T writes are its vertex collection and the edge
\* collections made from its file, and every other collection is left as
\* it was.  Relationship-pattern loader, as seen by the loader's
\* connection: a query of T adds nodes only with T's label and
\* relationships only of T's type between T's labels; a commit makes
\* durable what the connection sees and adds nothing.
C28_LoadFrame ==
    /\ [](\A t \in Tables : Range(Writes[t]) = OwnCollections(t))
    /\ [][(pc = "load" /\ run' = run /\ backend = "arango") =>
             \A c \in DOMAIN store :
                 /\ store[c] \sqsubseteq store'[c]
                 /\ c \notin OwnCollections(Table) => store'[c] = store[c]]_vars
    /\ [][(pc = "load" /\ run' = run /\ backend = "memgraph"
              /\ pc' # "aborted") =>
             /\ \A c \in DOMAIN work :
                   /\ work[c] \sqsubseteq work'[c]
                   /\ c \in Labels \ OwnLabels(Table) => work'[c] = work[c]
                   /\ c \in RelTypes =>
                         \A e \in BagToSet(work'[c] (-) work[c]) :
                             <<c, e.from[1], e.to[1]>> \in OwnRels(Table)
             /\ store' # store => (store' = work /\ work' = work)]_vars

\* the relationship-pattern loader has loaded every table in a second run,
\* on a store that held the records of the first run
C28_Witness ==
    /\ backend = "memgraph"
    /\ run = 2
    /\ pc = "done"
    /\ faults = 0
    /\ data = Orphans
    /\ Len(started) = Len(LoadOrder)
    /\ Count(store["Nation"]) = MaxRows
    /\ Count(store["LOCATED_IN"]) = 2 * (MaxRows - 1)

====
